---- MODULE Spec2Model ----
(***************************************************************************)
(* A model of the video generation service of src/main.py: the task       *)
(* registry `tasks`, the runner thread of every submitted task             *)
(* (process_video_generation, one step per access to shared state), the    *)
(* API handlers that change the registry, the working files of a task,     *)
(* the log buffer (log_task) and the clip scheduling loop of               *)
(* create_seamless_video_compilation.                                      *)
(*                                                                         *)
(* Program points of the runner are named after the line of src/main.py    *)
(* that is about to execute ("L626" is the write of line 626).             *)
(***************************************************************************)
EXTENDS Integers, Sequences, FiniteSets, TLC

VARIABLES
    tasks,            \* the global dict `tasks`: task id -> record (main.py:82)
    api_keys_ok,      \* the configured API keys are not the placeholders (main.py:630-634)
    pc,               \* per task: the program point of its runner thread
    request,          \* per task: the VideoGenerationRequest it was submitted with
    exc,              \* per task: the message of the exception the runner caught
    target_duration,  \* per task: local target_duration (0: not yet assigned)
    clip_list,        \* per task: the clip list the running stage works on
    words,            \* per task: local `words` of the caption stage
    temp_dir,         \* per task: TEMP_DIR/<task_id> exists
    temp_files,       \* per task: the files inside TEMP_DIR/<task_id>
    output_exists,    \* per task: OUTPUT_DIR/<task_id>_final.mp4 exists
    delivery,         \* per task: what became of the callback POST
    log_count,        \* per task: number of log_task calls made for it
    loaded_videos,    \* compilation loop: durations of the loaded clips
    comp_target,      \* compilation loop: target_duration
    current_duration, \* compilation loop: current_duration
    video_index,      \* compilation loop: video_index
    segments,         \* compilation loop: <<clip number, length>> of every entry of `clips`
    comp_pc,          \* compilation loop: program point
    comp_input,       \* compilation loop: the durations of video_paths (0: no valid duration)
    kept_paths,       \* per task: the list the running loop has built (video_urls of
                      \* search_multiple_pexels_videos, video_paths of
                      \* download_multiple_videos, converted_paths of
                      \* convert_multiple_to_shorts), read by the test after the loop
    page,             \* per task: local `page` of search_multiple_pexels_videos
    word_input,       \* caption grouping: the argument `words`
    groups,           \* caption grouping: local `groups`
    current_group,    \* caption grouping: local `current_group`
    word_pos,         \* caption grouping: number of words the for loop has taken
    group_pc,         \* caption grouping: program point
    caption_clips,    \* caption overlays: local `clips` of create_caption_clips
    calc_duration,    \* clip count: the argument target_duration, in tenths of a second
    calc_result,      \* clip count: what calculate_required_clips returned
    response          \* the answer of the last API call that was observed

pipeline_vars == <<api_keys_ok, pc, request, exc, target_duration, clip_list, words,
                   temp_dir, temp_files, output_exists, delivery, kept_paths, page>>
compile_vars  == <<loaded_videos, comp_target, current_duration, video_index,
                   segments, comp_pc, comp_input>>
group_vars    == <<word_input, groups, current_group, word_pos, group_pc, caption_clips>>
calc_vars     == <<calc_duration, calc_result>>
pure_vars     == <<group_vars, calc_vars>>
vars == <<tasks, pipeline_vars, log_count, compile_vars, pure_vars, response>>

\* What no step of a runner thread changes
fixed_vars == <<api_keys_ok, request, log_count, compile_vars, pure_vars, response>>

----------------------------------------------------------------------------
(* Bounds of the model *)

TaskIds == {"t1", "t2"}     \* the uuids generate_video can draw
MaxCandidates == 2          \* most clips one provider search returns
MaxDuration == 1            \* longest narration, in seconds
MaxAppends == 52            \* most log_task calls per task
MaxClips == 3               \* most clips handed to the compilation
MaxClipLen == 4             \* longest clip handed to the compilation
MaxTarget == 10             \* longest compilation target
MaxWords == 5               \* most words handed to the caption grouping
MaxTenths == 1400           \* longest duration handed to the clip count, in tenths of a second

(* Program constants *)

MAX_CONCURRENT_TASKS == 1
MIN_CLIPS == 3
MAX_CLIPS == 10
average_clip_duration == 15     \* the default of calculate_required_clips, in seconds

TASK_SEMAPHORE == MAX_CONCURRENT_TASKS   \* created with this value, never acquired

----------------------------------------------------------------------------
(* Python values *)

None == <<>>
Some(x) == <<x>>
Now == "now"                \* datetime.now(), the instant abstracted

Terminal == {"completed", "failed"}

HasTask(t) == t \in DOMAIN tasks

\* d[key] = value on a dict (the key is added when missing)
SetKey(d, key, value) ==
    [k \in DOMAIN d \cup {key} |-> IF k = key THEN value ELSE d[k]]

\* d.get(key, default)
Get(d, key, default) == IF key \in DOMAIN d THEN d[key] ELSE default

\* del d[key]
DelKey(d, key) == [k \in DOMAIN d \ {key} |-> d[k]]

\* The subsequences of s (the items that survive a loop that skips failures)
RECURSIVE SubSeqs(_)
SubSeqs(s) ==
    IF s = <<>> THEN {<<>>}
    ELSE LET rest == SubSeqs(Tail(s))
         IN rest \cup {<<Head(s)>> \o r : r \in rest}

OutputPath(t) == "output_videos/" \o t \o "_final.mp4"

\* shutil.rmtree(TEMP_DIR / task_id, ignore_errors=True)
rmtree(t) ==
    /\ temp_dir' = [temp_dir EXCEPT ![t] = FALSE]
    /\ temp_files' = [temp_files EXCEPT ![t] = {}]

----------------------------------------------------------------------------
(* The task registry and the API handlers that change it *)

\* Mutant of NewTask: the record is created as already processing
NewTask_Processing ==
    [status |-> "processing", progress |-> "Task created", error |-> None,
     output_file |-> None, duration |-> None, created_at |-> Now,
     completed_at |-> None]

\* The record generate_video stores for a new task (main.py:790-798)
NewTask ==
    [status |-> "pending", progress |-> "Task created", error |-> None,
     output_file |-> None, duration |-> None, created_at |-> Now,
     completed_at |-> None]

\* POST /generate-video: a fresh uuid, the record, and the runner thread started
generate_video(t, callback_url) ==
    /\ pc[t] = "idle"
    /\ ~HasTask(t)
    /\ tasks' = SetKey(tasks, t, NewTask)
    /\ request' = [request EXCEPT ![t] = [callback_url |-> callback_url]]
    /\ pc' = [pc EXCEPT ![t] = "L626"]
    /\ UNCHANGED <<api_keys_ok, exc, target_duration, clip_list, words, temp_dir,
                   temp_files, output_exists, delivery, kept_paths, page, log_count,
                   compile_vars, pure_vars, response>>

\* GET /task/{task_id}: what the handler answers in the current state
get_task_status(t) ==
    IF ~HasTask(t) THEN [code |-> 404, detail |-> "Task not found"]
    ELSE [code |-> 200,
          task_id |-> t,
          status |-> tasks[t].status,
          progress |-> Get(tasks[t], "progress", None),
          error |-> Get(tasks[t], "error", None),
          output_file |-> Get(tasks[t], "output_file", None),
          duration |-> Get(tasks[t], "duration", None),
          created_at |-> tasks[t].created_at,
          completed_at |-> Get(tasks[t], "completed_at", None),
          logs |-> Get(tasks[t], "logs", <<>>)]

\* Mutant of download_video: the test that output_file is set is missing,
\* and the file is looked up under the name the runner gives it
download_video_StatusOnly(t) ==
    IF ~HasTask(t) THEN [code |-> 404, detail |-> "Task not found"]
    ELSE IF tasks[t].status # "completed"
    THEN [code |-> 400, detail |-> "Video not ready for download"]
    ELSE IF ~output_exists[t] THEN [code |-> 404, detail |-> "Video file not found"]
    ELSE [code |-> 200, path |-> OutputPath(t), media_type |-> "video/mp4"]

\* GET /download/{task_id}: what the handler answers in the current state
download_video(t) ==
    IF ~HasTask(t) THEN [code |-> 404, detail |-> "Task not found"]
    ELSE IF tasks[t].status # "completed" \/ tasks[t].output_file = None
    THEN [code |-> 400, detail |-> "Video not ready for download"]
    ELSE IF ~output_exists[t] THEN [code |-> 404, detail |-> "Video file not found"]
    ELSE [code |-> 200, path |-> tasks[t].output_file[1], media_type |-> "video/mp4"]

\* Mutant of delete_task_response: deleting an id that is not in the registry
\* is answered like a deletion
delete_task_response_Silent(t) ==
    [code |-> 200, message |-> "Task deleted successfully"]

\* DELETE /task/{task_id}: what the handler answers in the current state
delete_task_response(t) ==
    IF ~HasTask(t) THEN [code |-> 404, detail |-> "Task not found"]
    ELSE [code |-> 200, message |-> "Task deleted successfully"]

\* DELETE /task/{task_id} of a task in the registry, whatever its status
delete_task(t) ==
    /\ HasTask(t)
    /\ output_exists' =
           [output_exists EXCEPT
               ![t] = IF tasks[t].output_file # None THEN FALSE ELSE @]
    /\ rmtree(t)
    /\ tasks' = DelKey(tasks, t)
    /\ UNCHANGED <<api_keys_ok, pc, request, exc, target_duration, clip_list, words,
                   delivery, kept_paths, page, log_count, compile_vars, pure_vars>>

----------------------------------------------------------------------------
(* The runner thread: process_video_generation, statement by statement.    *)
(* Every step says where control goes with one of Goto, GotoWith, Raise    *)
(* and Return, which together set pc and the locals exc, target_duration   *)
(* and clip_list.                                                          *)

Goto(t, next) ==
    /\ pc' = [pc EXCEPT ![t] = next]
    /\ UNCHANGED <<exc, target_duration, clip_list, kept_paths, page>>

\* Control moves on with the clip list of the stage replaced
GotoWith(t, next, clips) ==
    /\ pc' = [pc EXCEPT ![t] = next]
    /\ clip_list' = [clip_list EXCEPT ![t] = clips]
    /\ kept_paths' = [kept_paths EXCEPT ![t] = <<>>]
    /\ page' = [page EXCEPT ![t] = 1]
    /\ UNCHANGED <<exc, target_duration>>

\* A loop has ended with the list `paths` built; control moves to the test
\* that follows the loop (the page counter of the search is not read again)
GotoLoopEnd(t, next, paths) ==
    /\ pc' = [pc EXCEPT ![t] = next]
    /\ kept_paths' = [kept_paths EXCEPT ![t] = paths]
    /\ page' = [page EXCEPT ![t] = 1]
    /\ UNCHANGED <<exc, target_duration, clip_list>>

\* An exception raised inside the try block of line 625: control moves to
\* the handler of line 757 with the message str(e). The handler reads none
\* of the other locals, which the model drops here.
Raise(t, message) ==
    /\ pc' = [pc EXCEPT ![t] = "L760"]
    /\ exc' = [exc EXCEPT ![t] = message]
    /\ target_duration' = [target_duration EXCEPT ![t] = 0]
    /\ clip_list' = [clip_list EXCEPT ![t] = <<>>]
    /\ kept_paths' = [kept_paths EXCEPT ![t] = <<>>]
    /\ page' = [page EXCEPT ![t] = 1]

\* The thread leaves process_video_generation at program point `how`: its
\* locals are gone (`words` is kept as the record of what transcription did)
Return(t, how) ==
    /\ pc' = [pc EXCEPT ![t] = how]
    /\ exc' = [exc EXCEPT ![t] = ""]
    /\ target_duration' = [target_duration EXCEPT ![t] = 0]
    /\ clip_list' = [clip_list EXCEPT ![t] = <<>>]
    /\ kept_paths' = [kept_paths EXCEPT ![t] = <<>>]
    /\ page' = [page EXCEPT ![t] = 1]

\* tasks[task_id][key] = value inside the try block; KeyError when the task
\* is no longer in the registry
TryWrite(t, key, value, next) ==
    IF HasTask(t)
    THEN /\ tasks' = [tasks EXCEPT ![t] = SetKey(@, key, value)]
         /\ Goto(t, next)
    ELSE /\ Raise(t, "KeyError")
         /\ UNCHANGED tasks

\* tasks[task_id][key] = value inside the handler of line 757; a KeyError
\* there leaves process_video_generation and ends the thread in _target
HandlerWrite(t, key, value, next) ==
    IF HasTask(t)
    THEN /\ tasks' = [tasks EXCEPT ![t] = SetKey(@, key, value)]
         /\ Goto(t, next)
    ELSE /\ Return(t, "crashed")
         /\ UNCHANGED tasks

\* The lines that only write tasks[task_id]['progress'], and where each leads
ProgressLines ==
    [L627 |-> [message |-> "Starting video generation...", next |-> "L630"],
     L637 |-> [message |-> "Generating voiceover...", next |-> "L294"],
     L654 |-> [message |-> "Fetching video clips...", next |-> "L655"],
     L659 |-> [message |-> "Converting videos to shorts format...", next |-> "L660"],
     L663 |-> [message |-> "Creating video compilation...", next |-> "L404"],
     L435 |-> [message |-> "Compiling video", next |-> "L440"],
     L667 |-> [message |-> "Merging audio and video...", next |-> "L670"],
     L673 |-> [message |-> "Generating captions...", next |-> "L701"],
     L719 |-> [message |-> "Adding captions to video...", next |-> "L720"],
     L727 |-> [message |-> "Video generation completed!", next |-> "L728"]]

WriteProgress(t) ==
    /\ pc[t] \in DOMAIN ProgressLines
    /\ TryWrite(t, "progress", ProgressLines[pc[t]].message, ProgressLines[pc[t]].next)
    /\ UNCHANGED <<fixed_vars, words, temp_dir, temp_files, output_exists, delivery>>

\* Mutant of SetProcessing: the runner starts without the write of line 626
SetProcessing_Skipped(t) ==
    /\ pc[t] = "L626"
    /\ Goto(t, "L627")
    /\ UNCHANGED <<tasks, fixed_vars, words, temp_dir, temp_files, output_exists,
                   delivery>>

\* line 626
SetProcessing(t) ==
    /\ pc[t] = "L626"
    /\ TryWrite(t, "status", "processing", "L627")
    /\ UNCHANGED <<fixed_vars, words, temp_dir, temp_files, output_exists, delivery>>

\* lines 630-634
ValidateKeys(t) ==
    /\ pc[t] = "L630"
    /\ IF api_keys_ok
       THEN Goto(t, "L637")
       ELSE Raise(t, "API key not configured")
    /\ UNCHANGED <<tasks, fixed_vars, words, temp_dir, temp_files, output_exists,
                   delivery>>

Min(a, b) == IF a <= b THEN a ELSE b
Max(a, b) == IF a >= b THEN a ELSE b

\* Mutant of calculate_required_clips: the estimate is the quotient rounded
\* up, plus one
calculate_required_clips_CeilPlusOne(target_duration_, average_clip_duration_) ==
    LET estimated_clips ==
            ((target_duration_ + average_clip_duration_ - 1)
                 \div average_clip_duration_) + 1
    IN Max(MIN_CLIPS, Min(MAX_CLIPS, estimated_clips))

\* lines 618-621; both durations in the same unit of time, so that
\* int(target_duration / average_clip_duration) is the integer quotient
calculate_required_clips(target_duration_, average_clip_duration_) ==
    LET estimated_clips == (target_duration_ \div average_clip_duration_) + 2
    IN Max(MIN_CLIPS, Min(MAX_CLIPS, estimated_clips))

\* generate_voiceover, lines 293-294: task_dir.mkdir(exist_ok=True)
VoiceoverMkdir(t) ==
    /\ pc[t] = "L294"
    /\ temp_dir' = [temp_dir EXCEPT ![t] = TRUE]
    /\ Goto(t, "L336")
    /\ UNCHANGED <<tasks, fixed_vars, words, temp_files, output_exists, delivery>>

\* generate_voiceover, lines 334-363: the provider call and the file write;
\* every failure is raised again as an Exception
VoiceoverRequest(t) ==
    /\ pc[t] = "L336"
    /\ \/ /\ temp_dir[t]                      \* 200 with audio bytes, file written
          /\ temp_files' = [temp_files EXCEPT ![t] = @ \cup {"voiceover.mp3"}]
          /\ Goto(t, "L646")
       \/ /\ temp_dir[t]                      \* 200 with no bytes: an empty file
          /\ temp_files' = [temp_files EXCEPT ![t] = @ \cup {"voiceover.mp3"}]
          /\ Raise(t, "Unexpected error in voiceover generation: Voiceover file is empty")
       \/ /\ UNCHANGED temp_files             \* non-200, network error, open() failed
          /\ Raise(t, "Unexpected error in voiceover generation")
    /\ UNCHANGED <<tasks, fixed_vars, words, temp_dir, output_exists, delivery>>

\* lines 646-647
CheckAudioExists(t) ==
    /\ pc[t] = "L646"
    /\ IF "voiceover.mp3" \in temp_files[t]
       THEN Goto(t, "L649")
       ELSE Raise(t, "Voiceover file was not created successfully")
    /\ UNCHANGED <<tasks, fixed_vars, words, temp_dir, temp_files, output_exists,
                   delivery>>

\* Mutant of GetAudioDuration: the test of line 386 is missing and a
\* duration of zero is returned
GetAudioDuration_AcceptsZero(t) ==
    /\ pc[t] = "L649"
    /\ \/ /\ "voiceover.mp3" \in temp_files[t]
          /\ \E duration \in 0..MaxDuration :
                 /\ target_duration' = [target_duration EXCEPT ![t] = duration]
                 /\ pc' = [pc EXCEPT ![t] = "L650"]
                 /\ UNCHANGED <<exc, clip_list, kept_paths, page>>
       \/ Raise(t, "Failed to get audio duration")
    /\ UNCHANGED <<tasks, fixed_vars, words, temp_dir, temp_files, output_exists,
                   delivery>>

\* line 649, get_audio_duration (lines 365-391): the duration ffmpeg prints,
\* returned when it is positive (line 386); every failure, the one of line
\* 387 included, is raised again at line 391
GetAudioDuration(t) ==
    /\ pc[t] = "L649"
    /\ \/ /\ "voiceover.mp3" \in temp_files[t]
          /\ \E duration \in 0..MaxDuration :
                 IF duration <= 0
                 THEN Raise(t, "Failed to get audio duration")
                 ELSE /\ target_duration' = [target_duration EXCEPT ![t] = duration]
                      /\ pc' = [pc EXCEPT ![t] = "L650"]
                      /\ UNCHANGED <<exc, clip_list, kept_paths, page>>
       \/ Raise(t, "Failed to get audio duration")
    /\ UNCHANGED <<tasks, fixed_vars, words, temp_dir, temp_files, output_exists,
                   delivery>>

\* line 650
SetDuration(t) ==
    /\ pc[t] = "L650"
    /\ TryWrite(t, "duration", Some(target_duration[t]), "L654")
    /\ UNCHANGED <<fixed_vars, words, temp_dir, temp_files, output_exists, delivery>>

\* line 655, search_multiple_pexels_videos, lines 183-209: the test of the
\* while loop and one iteration of it. The query of the page raises, or
\* answers with no video (break), or with videos of which `found` are
\* appended to video_urls (the provider has MaxCandidates usable videos at
\* most). The candidates are numbered in the order they were found.
SearchVideos(t) ==
    /\ pc[t] = "L655"
    /\ LET num_clips == calculate_required_clips(target_duration[t],
                                                 average_clip_duration)
           video_urls == kept_paths[t]
           room == Min(num_clips, MaxCandidates) - Len(video_urls)
       IN IF Len(video_urls) < num_clips /\ page[t] <= 3
          THEN \/ Raise(t, "Failed to fetch from Pexels API")
               \/ GotoLoopEnd(t, "L211", video_urls)
               \/ \E found \in 0..room :
                      /\ kept_paths' =
                             [kept_paths EXCEPT
                                 ![t] = [i \in 1..(Len(video_urls) + found) |-> i]]
                      /\ page' = [page EXCEPT ![t] = @ + 1]
                      /\ UNCHANGED <<pc, exc, target_duration, clip_list>>
          ELSE GotoLoopEnd(t, "L211", video_urls)
    /\ UNCHANGED <<tasks, fixed_vars, words, temp_dir, temp_files, output_exists,
                   delivery>>

\* Mutant of SearchResult: a search that found nothing is run again
SearchResult_Retry(t) ==
    /\ pc[t] = "L211"
    /\ IF kept_paths[t] = <<>>
       THEN GotoLoopEnd(t, "L655", <<>>)
       ELSE GotoWith(t, "L220", kept_paths[t])
    /\ UNCHANGED <<tasks, fixed_vars, words, temp_dir, temp_files, output_exists,
                   delivery>>

\* search_multiple_pexels_videos, lines 211-214: the test after the loop
SearchResult(t) ==
    /\ pc[t] = "L211"
    /\ IF kept_paths[t] = <<>>
       THEN Raise(t, "No videos found for query")
       ELSE GotoWith(t, "L220", kept_paths[t])
    /\ UNCHANGED <<tasks, fixed_vars, words, temp_dir, temp_files, output_exists,
                   delivery>>

\* download_multiple_videos, lines 218-220: task_dir.mkdir(exist_ok=True)
DownloadMkdir(t) ==
    /\ pc[t] = "L220"
    /\ temp_dir' = [temp_dir EXCEPT ![t] = TRUE]
    /\ Goto(t, "L222")
    /\ UNCHANGED <<tasks, fixed_vars, words, temp_files, output_exists, delivery>>

\* The list a loop builds that appends the items it did not skip: the items
\* of `items` from position i on whose position is not in `failed`, in order
RECURSIVE KeepFrom(_, _, _)
KeepFrom(items, failed, i) ==
    IF i > Len(items) THEN <<>>
    ELSE (IF i \in failed THEN <<>> ELSE <<items[i]>>) \o KeepFrom(items, failed, i + 1)

\* download_multiple_videos, lines 222-242, the whole loop: `failed` are the
\* positions of the candidates whose request raised a RequestException,
\* which the loop skips. open() in a removed directory and the progress
\* write of a deleted task are not caught in the loop.
DownloadVideos(t) ==
    /\ pc[t] = "L222"
    /\ \E failed \in SUBSET (1..Len(clip_list[t])) :
          LET video_paths == KeepFrom(clip_list[t], failed, 1)
          IN IF video_paths = <<>>
             THEN /\ GotoLoopEnd(t, "L244", video_paths)
                  /\ UNCHANGED <<tasks, temp_files>>
             ELSE IF ~temp_dir[t]
             THEN /\ Raise(t, "FileNotFoundError")
                  /\ UNCHANGED <<tasks, temp_files>>
             ELSE /\ temp_files' = [temp_files EXCEPT ![t] = @ \cup {"pexels_video.mp4"}]
                  /\ IF HasTask(t)
                     THEN /\ tasks' = [tasks EXCEPT ![t] =
                                          SetKey(@, "progress", "Downloaded video")]
                          /\ GotoLoopEnd(t, "L244", video_paths)
                     ELSE /\ Raise(t, "KeyError")
                          /\ UNCHANGED tasks
    /\ UNCHANGED <<fixed_vars, words, temp_dir, output_exists, delivery>>

\* Mutant of DownloadResult: one failed download fails the whole step
DownloadResult_AllOrNothing(t) ==
    /\ pc[t] = "L244"
    /\ IF Len(kept_paths[t]) < Len(clip_list[t])
       THEN Raise(t, "Failed to download any videos")
       ELSE GotoWith(t, "L659", kept_paths[t])
    /\ UNCHANGED <<tasks, fixed_vars, words, temp_dir, temp_files, output_exists,
                   delivery>>

\* download_multiple_videos, lines 244-247: the test after the loop
DownloadResult(t) ==
    /\ pc[t] = "L244"
    /\ IF kept_paths[t] = <<>>
       THEN Raise(t, "Failed to download any videos")
       ELSE GotoWith(t, "L659", kept_paths[t])
    /\ UNCHANGED <<tasks, fixed_vars, words, temp_dir, temp_files, output_exists,
                   delivery>>

\* convert_multiple_to_shorts, lines 270-284, the whole loop: `failed` are the
\* positions of the clips whose conversion raised, which the loop skips
\* (ffmpeg fails on every clip when the directory or the downloads are gone).
\* The progress write of a deleted task is not caught in the loop.
ConvertVideos(t) ==
    /\ pc[t] = "L660"
    /\ \E failed \in SUBSET (1..Len(clip_list[t])) :
          LET converted_paths == KeepFrom(clip_list[t], failed, 1)
          IN /\ converted_paths # <<>> => "pexels_video.mp4" \in temp_files[t]
             /\ IF converted_paths = <<>>
                THEN /\ GotoLoopEnd(t, "L286", converted_paths)
                     /\ UNCHANGED <<tasks, temp_files>>
                ELSE /\ temp_files' =
                            [temp_files EXCEPT ![t] = @ \cup {"shorts_video.mp4"}]
                     /\ IF HasTask(t)
                        THEN /\ tasks' = [tasks EXCEPT ![t] =
                                             SetKey(@, "progress", "Converted video")]
                             /\ GotoLoopEnd(t, "L286", converted_paths)
                        ELSE /\ Raise(t, "KeyError")
                             /\ UNCHANGED tasks
    /\ UNCHANGED <<fixed_vars, words, temp_dir, output_exists, delivery>>

\* Mutant of ConvertResult: the step passes on the clips it was given,
\* the ones that failed to convert included
ConvertResult_KeepsAll(t) ==
    /\ pc[t] = "L286"
    /\ IF kept_paths[t] = <<>>
       THEN Raise(t, "Failed to convert any videos to shorts format")
       ELSE GotoWith(t, "L663", clip_list[t])
    /\ UNCHANGED <<tasks, fixed_vars, words, temp_dir, temp_files, output_exists,
                   delivery>>

\* convert_multiple_to_shorts, lines 286-289: the test after the loop
ConvertResult(t) ==
    /\ pc[t] = "L286"
    /\ IF kept_paths[t] = <<>>
       THEN Raise(t, "Failed to convert any videos to shorts format")
       ELSE GotoWith(t, "L663", kept_paths[t])
    /\ UNCHANGED <<tasks, fixed_vars, words, temp_dir, temp_files, output_exists,
                   delivery>>

\* create_seamless_video_compilation, lines 402-416: the clips that load
\* with a positive duration; none is an Exception. What the function does
\* with the loaded clips is modelled on its own below, and the clip list is
\* not read again by the runner.
CompileLoad(t) ==
    /\ pc[t] = "L404"
    /\ \E loaded \in SubSeqs(clip_list[t]) :
          /\ loaded # <<>> => "shorts_video.mp4" \in temp_files[t]
          /\ IF loaded = <<>>
             THEN Raise(t, "No videos could be loaded successfully")
             ELSE GotoWith(t, "L435", <<>>)
    /\ UNCHANGED <<tasks, fixed_vars, words, temp_dir, temp_files, output_exists,
                   delivery>>

\* create_seamless_video_compilation, lines 437-470: concatenate and write
\* (the loop of lines 419-435 is modelled on its own below; here its progress
\* write, line 435, is the step before this one). The clip lists are not
\* read after this step.
CompileWrite(t) ==
    /\ pc[t] = "L440"
    /\ \/ /\ temp_dir[t]
          /\ temp_files' = [temp_files EXCEPT ![t] = @ \cup {"compiled_video.mp4"}]
          /\ GotoWith(t, "L667", <<>>)
       \/ /\ Raise(t, "Failed to create video compilation")
          /\ UNCHANGED temp_files
    /\ UNCHANGED <<tasks, fixed_vars, words, temp_dir, output_exists, delivery>>

\* Mutant of MergeVoiceover: a failed merge is ignored and the caption stage
\* starts
MergeVoiceover_FailureIgnored(t) ==
    /\ pc[t] = "L670"
    /\ \/ /\ {"compiled_video.mp4", "voiceover.mp3"} \subseteq temp_files[t]
          /\ temp_files' = [temp_files EXCEPT ![t] = @ \cup {"merged_video.mp4"}]
          /\ Goto(t, "L673")
       \/ /\ Goto(t, "L673")
          /\ UNCHANGED temp_files
    /\ UNCHANGED <<tasks, fixed_vars, words, temp_dir, output_exists, delivery>>

\* line 670, merge_voiceover (lines 472-485)
MergeVoiceover(t) ==
    /\ pc[t] = "L670"
    /\ \/ /\ {"compiled_video.mp4", "voiceover.mp3"} \subseteq temp_files[t]
          /\ temp_files' = [temp_files EXCEPT ![t] = @ \cup {"merged_video.mp4"}]
          /\ Goto(t, "L673")
       \/ /\ Raise(t, "FFmpeg error during audio merge")
          /\ UNCHANGED temp_files
    /\ UNCHANGED <<tasks, fixed_vars, words, temp_dir, output_exists, delivery>>

\* lines 674-715: transcription; any failure is raised again as
\* "Caption generation failed" (line 715), which line 757 catches
Transcribe(t) ==
    /\ pc[t] = "L701"
    /\ \/ /\ "voiceover.mp3" \in temp_files[t]     \* a non-empty word list
          /\ words' = [words EXCEPT ![t] = "words"]
          /\ Goto(t, "L719")
       \/ /\ "voiceover.mp3" \in temp_files[t]     \* an empty word list: line 723
          /\ words' = [words EXCEPT ![t] = "empty"]
          /\ Goto(t, "L726")
       \/ /\ words' = [words EXCEPT ![t] = "raised"]
          /\ Raise(t, "Caption generation failed")
    /\ UNCHANGED <<tasks, fixed_vars, temp_dir, temp_files, output_exists, delivery>>

\* line 720, add_captions_to_video (lines 577-616): writes OutputPath(t)
AddCaptions(t) ==
    /\ pc[t] = "L720"
    /\ \/ /\ "merged_video.mp4" \in temp_files[t]
          /\ output_exists' = [output_exists EXCEPT ![t] = TRUE]
          /\ Goto(t, "L726")
       \/ /\ Raise(t, "Failed to add captions")
          /\ UNCHANGED output_exists
    /\ UNCHANGED <<tasks, fixed_vars, words, temp_dir, temp_files, delivery>>

\* line 726
SetCompleted(t) ==
    /\ pc[t] = "L726"
    /\ TryWrite(t, "status", "completed", "L727")
    /\ UNCHANGED <<fixed_vars, words, temp_dir, temp_files, output_exists, delivery>>

\* line 728: final_output is OutputPath(t) on both branches of line 717
SetOutputFile(t) ==
    /\ pc[t] = "L728"
    /\ TryWrite(t, "output_file", Some(OutputPath(t)), "L729")
    /\ UNCHANGED <<fixed_vars, words, temp_dir, temp_files, output_exists, delivery>>

\* line 729
SetCompletedAt(t) ==
    /\ pc[t] = "L729"
    /\ TryWrite(t, "completed_at", Some(Now), "L732")
    /\ UNCHANGED <<fixed_vars, words, temp_dir, temp_files, output_exists, delivery>>

\* Mutant of CallbackFailed: the failure of the delivery is not caught at
\* line 748 and reaches the handler of line 757
CallbackFailed_Propagates(t) ==
    /\ delivery' = [delivery EXCEPT ![t] = "failed"]
    /\ Raise(t, "Failed to POST video to callback URL")

\* lines 748-749: a failed delivery is printed and control moves on
CallbackFailed(t) ==
    /\ delivery' = [delivery EXCEPT ![t] = "failed"]
    /\ Goto(t, "L753")

\* Mutant of DeliverCallback: the test of request.callback_url is missing
DeliverCallback_Unconditional(t) ==
    /\ pc[t] = "L732"
    /\ \/ /\ output_exists[t]
          /\ HasTask(t)
          /\ delivery' = [delivery EXCEPT ![t] = "posted"]
          /\ Goto(t, "L753")
       \/ CallbackFailed(t)
    /\ UNCHANGED <<tasks, fixed_vars, words, temp_dir, temp_files, output_exists>>

\* lines 732-749: the delivery callback; every exception of the attempt
\* (open() of a missing file, KeyError of line 742, the POST itself) is caught
DeliverCallback(t) ==
    /\ pc[t] = "L732"
    /\ IF ~request[t].callback_url
       THEN /\ Goto(t, "L753")
            /\ UNCHANGED delivery
       ELSE \/ /\ output_exists[t]
               /\ HasTask(t)
               /\ delivery' = [delivery EXCEPT ![t] = "posted"]
               /\ Goto(t, "L753")
            \/ CallbackFailed(t)
    /\ UNCHANGED <<tasks, fixed_vars, words, temp_dir, temp_files, output_exists>>

\* lines 751-755
CleanupCompleted(t) ==
    /\ pc[t] = "L753"
    /\ rmtree(t)
    /\ Return(t, "done")
    /\ UNCHANGED <<tasks, fixed_vars, words, output_exists, delivery>>

\* Mutant of SetFailed: the handler records the failure in the wrong key
SetFailed_WrongKey(t) ==
    /\ pc[t] = "L760"
    /\ HandlerWrite(t, "progress", "failed", "L761")
    /\ UNCHANGED <<fixed_vars, words, temp_dir, temp_files, output_exists, delivery>>

\* line 760
SetFailed(t) ==
    /\ pc[t] = "L760"
    /\ HandlerWrite(t, "status", "failed", "L761")
    /\ UNCHANGED <<fixed_vars, words, temp_dir, temp_files, output_exists, delivery>>

\* line 761
SetError(t) ==
    /\ pc[t] = "L761"
    /\ HandlerWrite(t, "error", Some(exc[t]), "L762")
    /\ UNCHANGED <<fixed_vars, words, temp_dir, temp_files, output_exists, delivery>>

\* line 762
SetFailedAt(t) ==
    /\ pc[t] = "L762"
    /\ HandlerWrite(t, "completed_at", Some(Now), "L766")
    /\ UNCHANGED <<fixed_vars, words, temp_dir, temp_files, output_exists, delivery>>

\* Mutant of CleanupFailed: the failed exit returns without the rmtree
CleanupFailed_NoRmtree(t) ==
    /\ pc[t] = "L766"
    /\ Return(t, "done")
    /\ UNCHANGED <<tasks, fixed_vars, words, temp_dir, temp_files, output_exists,
                   delivery>>

\* lines 764-768
CleanupFailed(t) ==
    /\ pc[t] = "L766"
    /\ rmtree(t)
    /\ Return(t, "done")
    /\ UNCHANGED <<tasks, fixed_vars, words, output_exists, delivery>>

\* One step of the thread start_generation_in_thread started for task t
RunnerStep(t) ==
    \/ SetProcessing(t)
    \/ WriteProgress(t)
    \/ ValidateKeys(t)
    \/ VoiceoverMkdir(t)
    \/ VoiceoverRequest(t)
    \/ CheckAudioExists(t)
    \/ GetAudioDuration(t)
    \/ SetDuration(t)
    \/ SearchVideos(t)
    \/ SearchResult(t)
    \/ DownloadMkdir(t)
    \/ DownloadVideos(t)
    \/ DownloadResult(t)
    \/ ConvertVideos(t)
    \/ ConvertResult(t)
    \/ CompileLoad(t)
    \/ CompileWrite(t)
    \/ MergeVoiceover(t)
    \/ Transcribe(t)
    \/ AddCaptions(t)
    \/ SetCompleted(t)
    \/ SetOutputFile(t)
    \/ SetCompletedAt(t)
    \/ DeliverCallback(t)
    \/ CleanupCompleted(t)
    \/ SetFailed(t)
    \/ SetError(t)
    \/ SetFailedAt(t)
    \/ CleanupFailed(t)

\* The thread of task t has ended: after its cleanup ("done"), or in _target
\* with an exception that left process_video_generation ("crashed")
RunnerFinished(t) == pc[t] \in {"done", "crashed"}

----------------------------------------------------------------------------
(* The service: submissions, deletions and the runner threads *)

CompileIdle ==
    /\ comp_input = <<>>
    /\ loaded_videos = <<>>
    /\ comp_target = 0
    /\ current_duration = 0
    /\ video_index = 0
    /\ segments = <<>>
    /\ comp_pc = "off"

GroupIdle ==
    /\ word_input = <<>>
    /\ groups = <<>>
    /\ current_group = <<>>
    /\ word_pos = 0
    /\ group_pc = "off"
    /\ caption_clips = <<>>

CalcIdle ==
    /\ calc_duration = 0
    /\ calc_result = None

PureIdle == GroupIdle /\ CalcIdle

PipelineIdle ==
    /\ api_keys_ok = TRUE
    /\ pc = [t \in TaskIds |-> "idle"]
    /\ request = [t \in TaskIds |-> [callback_url |-> FALSE]]
    /\ exc = [t \in TaskIds |-> ""]
    /\ target_duration = [t \in TaskIds |-> 0]
    /\ clip_list = [t \in TaskIds |-> <<>>]
    /\ words = [t \in TaskIds |-> "unset"]
    /\ temp_dir = [t \in TaskIds |-> FALSE]
    /\ temp_files = [t \in TaskIds |-> {}]
    /\ output_exists = [t \in TaskIds |-> FALSE]
    /\ delivery = [t \in TaskIds |-> "none"]
    /\ kept_paths = [t \in TaskIds |-> <<>>]
    /\ page = [t \in TaskIds |-> 1]

Init ==
    /\ tasks = <<>>
    /\ api_keys_ok \in BOOLEAN
    /\ pc = [t \in TaskIds |-> "idle"]
    /\ request = [t \in TaskIds |-> [callback_url |-> FALSE]]
    /\ exc = [t \in TaskIds |-> ""]
    /\ target_duration = [t \in TaskIds |-> 0]
    /\ clip_list = [t \in TaskIds |-> <<>>]
    /\ words = [t \in TaskIds |-> "unset"]
    /\ temp_dir = [t \in TaskIds |-> FALSE]
    /\ temp_files = [t \in TaskIds |-> {}]
    /\ output_exists = [t \in TaskIds |-> FALSE]
    /\ delivery = [t \in TaskIds |-> "none"]
    /\ kept_paths = [t \in TaskIds |-> <<>>]
    /\ page = [t \in TaskIds |-> 1]
    /\ log_count = [t \in TaskIds |-> 0]
    /\ CompileIdle
    /\ PureIdle
    /\ response = None

Next ==
    \E t \in TaskIds :
        \/ \E callback_url \in BOOLEAN : generate_video(t, callback_url)
        \/ delete_task(t) /\ UNCHANGED response
        \/ RunnerStep(t)

Spec == Init /\ [][Next]_vars

\* The runner threads are scheduled fairly and every external call returns
LiveSpec == Spec /\ \A t \in TaskIds : WF_vars(RunnerStep(t))

----------------------------------------------------------------------------
(* The API seen by a client: one task is submitted and run as in Spec, and *)
(* the lookups by id are called at any moment, for the id of that task and *)
(* for an id generate_video never drew; `response` holds the last answer.  *)

ApiTask == "t1"

Answer(op, id, answer) == [op |-> op, task_id |-> id, answer |-> answer]

CallGetTaskStatus(id) ==
    /\ response' = Answer("get_task_status", id, get_task_status(id))
    /\ UNCHANGED <<tasks, pipeline_vars, log_count, compile_vars, pure_vars>>

CallDownloadVideo(id) ==
    /\ response' = Answer("download_video", id, download_video(id))
    /\ UNCHANGED <<tasks, pipeline_vars, log_count, compile_vars, pure_vars>>

CallDeleteTask(id) ==
    /\ response' = Answer("delete_task", id, delete_task_response(id))
    /\ IF HasTask(id)
       THEN delete_task(id)
       ELSE UNCHANGED <<tasks, pipeline_vars, log_count, compile_vars, pure_vars>>

ApiNext ==
    \/ \E callback_url \in BOOLEAN : generate_video(ApiTask, callback_url)
    \/ RunnerStep(ApiTask)
    \/ \E id \in TaskIds :
           \/ CallGetTaskStatus(id)
           \/ CallDownloadVideo(id)
           \/ CallDeleteTask(id)

ApiSpec == Init /\ [][ApiNext]_vars

----------------------------------------------------------------------------
(* The log buffer: log_task (main.py:84-95) *)

\* The j-th message logged for a task, and the line log_task builds from it
\* (line 88, the timestamp abstracted)
Message(j) == "m" \o ToString(j)
LogLine(message) == "[ts] " \o message

\* tasks[task_id].setdefault('logs', []).append(line)
AppendLog(task, line) == SetKey(task, "logs", Append(Get(task, "logs", <<>>), line))

\* log_task(task_id, message), lines 86-93: append and mirror to progress
\* when the task is in the registry; print only when it is not
log_task(t, message) ==
    /\ tasks' = IF HasTask(t)
                THEN [tasks EXCEPT ![t] =
                         SetKey(AppendLog(@, LogLine(message)), "progress", message)]
                ELSE tasks
    /\ log_count' = [log_count EXCEPT ![t] = @ + 1]
    /\ UNCHANGED <<pipeline_vars, compile_vars, pure_vars, response>>

LogInit ==
    /\ \E ids \in SUBSET TaskIds : tasks = [t \in ids |-> NewTask]
    /\ PipelineIdle
    /\ log_count = [t \in TaskIds |-> 0]
    /\ CompileIdle
    /\ PureIdle
    /\ response = None

LogNext ==
    \E t \in TaskIds :
        /\ log_count[t] < MaxAppends
        /\ log_task(t, Message(log_count[t] + 1))

LogSpec == LogInit /\ [][LogNext]_vars

----------------------------------------------------------------------------
(* The clip scheduling loop of create_seamless_video_compilation           *)
(* (main.py:393-470), run for task CompileTask. Durations are whole units  *)
(* of time; comp_input holds the duration of each clip of video_paths.     *)

CompileTask == "t1"

\* Mutant of LoadVideos: the clips without a duration are kept
LoadVideos_KeepsZero(durations) == durations

\* lines 402-413: the clips with clip.duration > 0, in order
LoadVideos(durations) == SelectSeq(durations, LAMBDA d : d > 0)

\* Mutant of DurationToAdd: the last clip is not trimmed to the remaining time
DurationToAdd_WholeClip(clip_duration, remaining_time) == clip_duration

\* lines 423-428: duration_to_add
DurationToAdd(clip_duration, remaining_time) ==
    IF clip_duration <= remaining_time THEN clip_duration ELSE remaining_time

\* Mutant of CompileLoadVideos: one clip that does not load fails the stage
CompileLoadVideos_AllOrNothing ==
    /\ comp_pc = "L404"
    /\ loaded_videos' = LoadVideos(comp_input)
    /\ comp_pc' = IF Len(LoadVideos(comp_input)) < Len(comp_input)
                  THEN "raised" ELSE "L419"
    /\ UNCHANGED <<tasks, pipeline_vars, log_count, comp_input, comp_target,
                   current_duration, video_index, segments, pure_vars, response>>

\* lines 402-416
CompileLoadVideos ==
    /\ comp_pc = "L404"
    /\ loaded_videos' = LoadVideos(comp_input)
    /\ comp_pc' = IF LoadVideos(comp_input) = <<>> THEN "raised" ELSE "L419"
    /\ UNCHANGED <<tasks, pipeline_vars, log_count, comp_input, comp_target,
                   current_duration, video_index, segments, pure_vars, response>>

\* Mutant of CompileIterate: every iteration takes the first clip
CompileIterate_AlwaysFirstClip ==
    /\ comp_pc = "L419"
    /\ current_duration < comp_target
    /\ LET remaining_time == comp_target - current_duration
           clip_number == 1
           duration_to_add == DurationToAdd(loaded_videos[clip_number], remaining_time)
       IN /\ segments' = Append(segments, <<clip_number, duration_to_add>>)
          /\ current_duration' = current_duration + duration_to_add
          /\ video_index' = video_index + 1
          /\ tasks' = [tasks EXCEPT ![CompileTask] =
                          SetKey(@, "progress",
                                 "Compiling video: "
                                     \o ToString(current_duration + duration_to_add)
                                     \o "/" \o ToString(comp_target))]
    /\ UNCHANGED <<pipeline_vars, log_count, comp_input, comp_target, loaded_videos,
                   comp_pc, pure_vars, response>>

\* lines 419-435: one iteration of the while loop
CompileIterate ==
    /\ comp_pc = "L419"
    /\ current_duration < comp_target
    /\ LET remaining_time == comp_target - current_duration
           clip_number == (video_index % Len(loaded_videos)) + 1
           duration_to_add == DurationToAdd(loaded_videos[clip_number], remaining_time)
       IN /\ segments' = Append(segments, <<clip_number, duration_to_add>>)
          /\ current_duration' = current_duration + duration_to_add
          /\ video_index' = video_index + 1
          /\ tasks' = [tasks EXCEPT ![CompileTask] =
                          SetKey(@, "progress",
                                 "Compiling video: "
                                     \o ToString(current_duration + duration_to_add)
                                     \o "/" \o ToString(comp_target))]
    /\ UNCHANGED <<pipeline_vars, log_count, comp_input, comp_target, loaded_videos,
                   comp_pc, pure_vars, response>>

\* lines 437-470: the loop has ended; concatenate and write, or raise
CompileConcatenate ==
    /\ comp_pc = "L419"
    /\ ~(current_duration < comp_target)
    /\ \/ comp_pc' = "returned"
       \/ comp_pc' = "raised"
    /\ UNCHANGED <<tasks, pipeline_vars, log_count, comp_input, comp_target,
                   loaded_videos, current_duration, video_index, segments, pure_vars,
                   response>>

RECURSIVE SeqsUpTo(_, _)
SeqsUpTo(S, n) ==
    IF n = 0 THEN {<<>>}
    ELSE LET shorter == SeqsUpTo(S, n - 1)
         IN shorter \cup {Append(q, x) : q \in shorter, x \in S}

CompileInit ==
    /\ tasks = [t \in {CompileTask} |->
                   [NewTask EXCEPT !.status = "processing",
                                   !.progress = "Creating video compilation..."]]
    /\ PipelineIdle
    /\ log_count = [t \in TaskIds |-> 0]
    /\ comp_input \in SeqsUpTo(0..MaxClipLen, MaxClips) \ {<<>>}
    /\ comp_target \in 1..MaxTarget
    /\ loaded_videos = <<>>
    /\ current_duration = 0
    /\ video_index = 0
    /\ segments = <<>>
    /\ comp_pc = "L404"
    /\ PureIdle
    /\ response = None

CompileNext == CompileLoadVideos \/ CompileIterate \/ CompileConcatenate

CompileSpec == CompileInit /\ [][CompileNext]_vars

\* The function is run by one thread, which keeps running until it returns
\* or raises
CompileLiveSpec == CompileSpec /\ WF_vars(CompileNext)

----------------------------------------------------------------------------
(* Caption grouping: create_smart_word_groups (main.py:500-518). A word is *)
(* the dict extract_words_with_timestamps builds (lines 492-496); its text *)
(* is a sequence of characters.                                            *)

\* line 509: the characters that close a group
BreakPunct == {".", "!", "?", ",", ";", ":"}

Whitespace == {" "}

\* str.strip(): the text without its leading and trailing whitespace
RECURSIVE strip(_)
strip(text) ==
    IF text = <<>> THEN text
    ELSE IF Head(text) \in Whitespace THEN strip(Tail(text))
    ELSE IF text[Len(text)] \in Whitespace THEN strip(SubSeq(text, 1, Len(text) - 1))
    ELSE text

\* line 509: any(punct in word_text for punct in [...]), with one-character
\* marks: some character of the text is a mark
has_break_punct(word_text) ==
    \E i \in 1..Len(word_text) : word_text[i] \in BreakPunct

\* The texts of the words handed to the grouping: plain, a mark at the end,
\* a mark inside
WordTexts == {<<"a">>, <<"a", ",">>, <<"a", ".", "a">>}

\* The i-th word of a transcription, lines 492-496
Word(i, text) == [word |-> text, start |-> i - 1, end |-> i]

\* Mutant of TakeWord: a group is closed at four words instead of three
TakeWord_GroupsOfFour ==
    /\ group_pc = "L505"
    /\ word_pos < Len(word_input)
    /\ LET word == word_input[word_pos + 1]
           appended == Append(current_group, word)
           word_text == strip(word.word)
       IN IF has_break_punct(word_text) \/ Len(appended) >= 4
          THEN /\ groups' = Append(groups, appended)
               /\ current_group' = <<>>
          ELSE /\ current_group' = appended
               /\ UNCHANGED groups
    /\ word_pos' = word_pos + 1
    /\ UNCHANGED <<tasks, pipeline_vars, log_count, compile_vars, calc_vars, response,
                   word_input, group_pc, caption_clips>>

\* lines 505-513: one iteration of the for loop
TakeWord ==
    /\ group_pc = "L505"
    /\ word_pos < Len(word_input)
    /\ LET word == word_input[word_pos + 1]
           appended == Append(current_group, word)
           word_text == strip(word.word)
       IN IF has_break_punct(word_text) \/ Len(appended) >= 3
          THEN /\ groups' = Append(groups, appended)
               /\ current_group' = <<>>
          ELSE /\ current_group' = appended
               /\ UNCHANGED groups
    /\ word_pos' = word_pos + 1
    /\ UNCHANGED <<tasks, pipeline_vars, log_count, compile_vars, calc_vars, response,
                   word_input, group_pc, caption_clips>>

\* Mutant of ReturnGroups: the words left in current_group are not returned
ReturnGroups_DropsRest ==
    /\ group_pc = "L505"
    /\ word_pos = Len(word_input)
    /\ current_group' = <<>>
    /\ group_pc' = "returned"
    /\ UNCHANGED <<tasks, pipeline_vars, log_count, compile_vars, calc_vars, response,
                   word_input, groups, word_pos, caption_clips>>

\* lines 515-518: the loop has ended; the open group, when not empty, is the
\* last group
ReturnGroups ==
    /\ group_pc = "L505"
    /\ word_pos = Len(word_input)
    /\ groups' = IF current_group # <<>> THEN Append(groups, current_group) ELSE groups
    /\ current_group' = <<>>
    /\ group_pc' = "returned"
    /\ UNCHANGED <<tasks, pipeline_vars, log_count, compile_vars, calc_vars, response,
                   word_input, word_pos, caption_clips>>

\* Mutant of CaptionClip: the words with the text of the word spoken are
\* painted gold
CaptionClip_HighlightsByText(word_group, word_idx) ==
    LET word == word_group[word_idx]
        words_text == [i \in 1..Len(word_group) |-> word_group[i].word]
    IN [start |-> word.start,
        duration |-> word.end - word.start,
        words_text |-> words_text,
        colors |-> [i \in 1..Len(words_text) |->
                       IF words_text[i] = word.word THEN "#FFD700" ELSE "#FFFFFF"]]

\* create_caption_clips, lines 542-573: the overlay for the word at word_idx
\* of a group. The image shows the texts of the group's words in a row,
\* each in its colour (line 553); the clip lasts end - start (line 571) and
\* starts at the word's start (line 572).
CaptionClip(word_group, word_idx) ==
    LET word == word_group[word_idx]
        words_text == [i \in 1..Len(word_group) |-> word_group[i].word]
    IN [start |-> word.start,
        duration |-> word.end - word.start,
        words_text |-> words_text,
        colors |-> [i \in 1..Len(words_text) |->
                       IF i = word_idx THEN "#FFD700" ELSE "#FFFFFF"]]

\* lines 540-573: the clips of the groups one after the other, one clip per
\* word of each group
RECURSIVE ClipsOfGroups(_)
ClipsOfGroups(word_groups) ==
    IF word_groups = <<>> THEN <<>>
    ELSE [word_idx \in 1..Len(Head(word_groups)) |->
              CaptionClip(Head(word_groups), word_idx)]
         \o ClipsOfGroups(Tail(word_groups))

\* create_caption_clips, lines 538-575, once create_smart_word_groups
\* (line 538) has returned the groups
CreateCaptionClips ==
    /\ group_pc = "returned"
    /\ caption_clips' = ClipsOfGroups(groups)
    /\ group_pc' = "clips"
    /\ UNCHANGED <<tasks, pipeline_vars, log_count, compile_vars, calc_vars, response,
                   word_input, groups, current_group, word_pos>>

\* The word lists of at most n words with texts from WordTexts
WordLists(n) ==
    UNION {{[i \in 1..len |-> Word(i, texts[i])] : texts \in [1..len -> WordTexts]} :
              len \in 0..n}

GroupInit ==
    /\ tasks = <<>>
    /\ PipelineIdle
    /\ log_count = [t \in TaskIds |-> 0]
    /\ CompileIdle
    /\ CalcIdle
    /\ response = None
    /\ word_input \in WordLists(MaxWords)
    /\ groups = <<>>
    /\ current_group = <<>>
    /\ word_pos = 0
    /\ group_pc = "L505"
    /\ caption_clips = <<>>

GroupNext == TakeWord \/ ReturnGroups \/ CreateCaptionClips

GroupSpec == GroupInit /\ [][GroupNext]_vars

----------------------------------------------------------------------------
(* The clip count: calculate_required_clips (main.py:618-621) applied to   *)
(* a duration given in tenths of a second, with the default                *)
(* average_clip_duration.                                                  *)

ApplyCalc ==
    /\ calc_result = None
    /\ calc_result' =
           Some(calculate_required_clips(calc_duration, 10 * average_clip_duration))
    /\ UNCHANGED <<tasks, pipeline_vars, log_count, compile_vars, group_vars, response,
                   calc_duration>>

CalcInit ==
    /\ tasks = <<>>
    /\ PipelineIdle
    /\ log_count = [t \in TaskIds |-> 0]
    /\ CompileIdle
    /\ GroupIdle
    /\ response = None
    /\ calc_duration \in 1..MaxTenths
    /\ calc_result = None

CalcNext == ApplyCalc

CalcSpec == CalcInit /\ [][CalcNext]_vars

----------------------------------------------------------------------------
(* Claims about the task pipeline *)

Submitted(t) == pc[t] # "idle"
StatusOf(t) == IF HasTask(t) THEN tasks[t].status ELSE "deleted"
ReachedTerminal(t) == StatusOf(t) \in Terminal

C2_AtMostNProcessing ==
    Cardinality({t \in TaskIds : StatusOf(t) = "processing"}) <= MAX_CONCURRENT_TASKS

IsSet(v) == v # None

\* C3 as stated: whatever a status query answers, a terminal task has
\* exactly one of output_file and error set and has completed_at set, and a
\* pending or processing task has no completed_at.
C3_ConsistentSnapshot ==
    \A t \in TaskIds :
        LET r == get_task_status(t)
        IN r.code = 200 =>
             IF r.status \in Terminal
             THEN /\ IsSet(r.output_file) # IsSet(r.error)
                  /\ IsSet(r.completed_at)
             ELSE ~IsSet(r.completed_at)

\* C4 as stated: a task whose transcription raised ends completed, with an
\* output file recorded.
C4_TranscriptionFailureCompletes ==
    \A t \in TaskIds :
        (words[t] = "raised" /\ RunnerFinished(t) /\ HasTask(t))
            => (tasks[t].status = "completed" /\ IsSet(tasks[t].output_file))

\* C5 as stated: a task whose transcription returned no word ends completed
\* and the file its output_file names exists once the runner has finished.
C5_EmptyWordsOutputExists ==
    \A t \in TaskIds :
        (words[t] = "empty" /\ RunnerFinished(t) /\ HasTask(t))
            => (/\ tasks[t].status = "completed"
                /\ tasks[t].output_file = Some(OutputPath(t))
                /\ output_exists[t])

\* C6: once the runner of a task has finished and the task is completed or
\* failed, the working directory of the task and the files in it are gone.
C6_WorkingStorageReleased ==
    \A t \in TaskIds :
        (RunnerFinished(t) /\ ReachedTerminal(t))
            => (~temp_dir[t] /\ temp_files[t] = {})

\* C6 witness: both exits taken, the failed one after working files were written
C6_Witness ==
    \E t, u \in TaskIds :
        /\ pc[t] = "done" /\ StatusOf(t) = "completed"
        /\ pc[u] = "done" /\ StatusOf(u) = "failed"
        /\ tasks[u].error = Some("FFmpeg error during audio merge")

\* C7: after a failed delivery the runner goes on to the cleanup and never
\* to the exception handler; the task is still completed, with its
\* output_file and no error, and the working storage is released when the
\* runner ends.
C7_CallbackFailureKeepsOutcome ==
    \A t \in TaskIds :
        delivery[t] = "failed" =>
            /\ pc[t] \in {"L753", "done"}
            /\ HasTask(t) => /\ tasks[t].status = "completed"
                             /\ tasks[t].output_file = Some(OutputPath(t))
                             /\ tasks[t].error = None
            /\ pc[t] = "done" => (~temp_dir[t] /\ temp_files[t] = {})

\* C7 witness: a task whose delivery failed, after its runner ended
C7_Witness ==
    \E t \in TaskIds :
        delivery[t] = "failed" /\ pc[t] = "done" /\ StatusOf(t) = "completed"

\* C8 as stated: a task submitted with a callback target has had a delivery
\* attempt once its runner ended with the task completed or failed; a task
\* submitted without one never has.
C8_DeliveryOnEveryTerminalExit ==
    \A t \in TaskIds :
        /\ (request[t].callback_url /\ RunnerFinished(t) /\ ReachedTerminal(t))
               => delivery[t] # "none"
        /\ ~request[t].callback_url => delivery[t] = "none"

\* C8 as amended: the delivery attempt is made on the completed exit only.
\* A task submitted with a callback target has had one once its runner
\* ended with the task completed, a failed task never has had one, and a
\* task submitted without a callback target never has.
C8_DeliveryOnCompletedExitOnly ==
    \A t \in TaskIds :
        /\ (request[t].callback_url /\ RunnerFinished(t) /\ StatusOf(t) = "completed")
               => delivery[t] # "none"
        /\ StatusOf(t) = "failed" => delivery[t] = "none"
        /\ ~request[t].callback_url => delivery[t] = "none"

\* C8 witness: a delivered task, and a failed task that had a callback target
C8_Witness ==
    \E t, u \in TaskIds :
        /\ RunnerFinished(t) /\ StatusOf(t) = "completed" /\ delivery[t] = "posted"
        /\ RunnerFinished(u) /\ StatusOf(u) = "failed" /\ request[u].callback_url

\* What a skip-on-error loop followed by its test must do at the test of
\* program point `test`: with m items given and k of them skipped, pass on
\* the m-k items kept, in their original order, when k < m, and raise
\* `message` when k = m; and the handler of a task still in the registry
\* then sets its status to failed.
PartialFailureStep(t, test, next, message) ==
    /\ (pc[t] = test /\ pc'[t] # test) =>
          LET m == Len(clip_list[t])
              k == m - Len(kept_paths[t])
          IN /\ kept_paths[t] \in SubSeqs(clip_list[t])
             /\ IF k < m
                THEN /\ pc'[t] = next
                     /\ clip_list'[t] = kept_paths[t]
                     /\ Len(clip_list'[t]) = m - k
                ELSE /\ pc'[t] = "L760"
                     /\ exc'[t] = message
    /\ (pc[t] = "L760" /\ pc'[t] # "L760" /\ exc[t] = message /\ HasTask(t)) =>
          /\ tasks'[t].status = "failed"
          /\ pc'[t] = "L761"

\* C13: when k of the m candidates fail to download and k < m, the footage
\* fetch step passes on the m-k downloaded clips in their original order;
\* when all m fail, it raises "Failed to download any videos" and the task
\* becomes failed.
C13_DownloadPartialFailure ==
    [][\A t \in TaskIds :
          PartialFailureStep(t, "L244", "L659", "Failed to download any videos")]_vars

\* C13 witness: one task whose first candidate of two failed to download,
\* and another task that failed because every download failed
C13_Witness ==
    \E t, u \in TaskIds :
        /\ pc[t] = "L244" /\ clip_list[t] = <<1, 2>> /\ kept_paths[t] = <<2>>
        /\ StatusOf(u) = "failed"
        /\ tasks[u].error = Some("Failed to download any videos")

\* C14: when k of the m fetched clips fail to convert and k < m, the
\* normalization step passes on the m-k converted clips in their original
\* order; when all m fail, it raises "Failed to convert any videos to shorts
\* format" and the task becomes failed.
C14_ConvertPartialFailure ==
    [][\A t \in TaskIds :
          PartialFailureStep(t, "L286", "L663",
                             "Failed to convert any videos to shorts format")]_vars

\* C14 witness: one task whose first clip of two failed to convert, and
\* another task that failed because every conversion failed
C14_Witness ==
    \E t, u \in TaskIds :
        /\ pc[t] = "L286" /\ clip_list[t] = <<1, 2>> /\ kept_paths[t] = <<2>>
        /\ StatusOf(u) = "failed"
        /\ tasks[u].error = Some("Failed to convert any videos to shorts format")

\* C17 as stated: no exception leaves process_video_generation, whatever
\* the API does meanwhile, and when the runner has ended no working
\* directory or working file of the task is left.
C17_NothingEscapesNothingLeaks ==
    \A t \in TaskIds :
        /\ pc[t] # "crashed"
        /\ RunnerFinished(t) => (~temp_dir[t] /\ temp_files[t] = {})

\* The part of C17 about the working storage alone: a runner that has ended,
\* however it ended, has left no working directory behind.
C17_NoLeakAfterRunner ==
    \A t \in TaskIds : RunnerFinished(t) => ~temp_dir[t]

\* The status changes the claim allows
AllowedStatusChanges ==
    {<<"pending", "processing">>, <<"processing", "completed">>,
     <<"processing", "failed">>}

\* C18: a record is created with status pending, and its status changes
\* only from pending to processing and from processing to completed or to
\* failed; completed and failed never change.
C18_StatusTransitions ==
    [][\A t \in TaskIds :
          /\ (~HasTask(t) /\ HasTask(t)') => tasks'[t].status = "pending"
          /\ (HasTask(t) /\ HasTask(t)' /\ tasks'[t].status # tasks[t].status) =>
                 <<tasks[t].status, tasks'[t].status>> \in AllowedStatusChanges]_vars

\* C18 witness: one task went to completed and another to failed after the
\* duration discovery failed
C18_Witness ==
    \E t, u \in TaskIds :
        /\ StatusOf(t) = "completed" /\ tasks[t].output_file # None
        /\ StatusOf(u) = "failed"
        /\ tasks[u].error = Some("Failed to get audio duration")

\* The causes a failed speech synthesis, duration discovery or merge raises
FatalCauses ==
    {"Unexpected error in voiceover generation: Voiceover file is empty",
     "Unexpected error in voiceover generation",
     "Voiceover file was not created successfully",
     "Failed to get audio duration",
     "FFmpeg error during audio merge"}

\* Where a step of these stages leads when the stage succeeds, and what the
\* stage has produced then
FatalStageSuccess(t) ==
    CASE pc[t] = "L336" -> pc'[t] = "L646" /\ "voiceover.mp3" \in temp_files'[t]
      [] pc[t] = "L646" -> pc'[t] = "L649" /\ "voiceover.mp3" \in temp_files[t]
      [] pc[t] = "L649" -> pc'[t] = "L650" /\ target_duration'[t] > 0
      [] pc[t] = "L670" -> pc'[t] = "L673" /\ "merged_video.mp4" \in temp_files'[t]

\* The order of the statements of the exception handler
HandlerNext == [L760 |-> "L761", L761 |-> "L762", L762 |-> "L766", L766 |-> "done"]

\* C19: a step of speech synthesis, duration discovery or merge either
\* succeeds or moves the runner to the exception handler with the cause of
\* the failure; the handler runs its statements in order and never goes
\* back to a stage, sets the status to failed first, and has recorded the
\* cause in error when it reaches its cleanup.
C19_FatalStagesAbort ==
    [][\A t \in TaskIds :
          /\ (pc[t] \in {"L336", "L646", "L649", "L670"} /\ pc'[t] # pc[t]) =>
                 \/ FatalStageSuccess(t)
                 \/ pc'[t] = "L760" /\ exc'[t] \in FatalCauses
          /\ (pc[t] \in DOMAIN HandlerNext /\ pc'[t] # pc[t]) =>
                 \/ pc'[t] = HandlerNext[pc[t]]
                 \/ pc'[t] = "crashed" /\ ~HasTask(t)
          /\ (pc[t] = "L760" /\ pc'[t] = "L761") => tasks'[t].status = "failed"
          /\ (pc[t] = "L766" /\ HasTask(t) /\ exc[t] \in FatalCauses) =>
                 /\ tasks[t].status = "failed"
                 /\ tasks[t].error = Some(exc[t])]_vars

\* C19 witness: a task that failed in the merge, after its runner ended
C19_Witness ==
    \E t \in TaskIds :
        /\ pc[t] = "done"
        /\ StatusOf(t) = "failed"
        /\ tasks[t].error = Some("FFmpeg error during audio merge")
        /\ tasks[t].output_file = None

----------------------------------------------------------------------------
(* Claims about the API *)

\* C20: the step of a submission creates the record with status pending and
\* nothing else set, starts no stage (the runner is before its first
\* statement and no working file exists), and a status query made right
\* after it answers with that record and an empty log.
C20_SubmissionCreatesPendingRecord ==
    [][\A t \in TaskIds :
          (pc[t] = "idle" /\ pc'[t] # "idle") =>
              /\ pc'[t] = "L626"
              /\ ~temp_dir'[t] /\ temp_files'[t] = {} /\ ~output_exists'[t]
              /\ LET r == get_task_status(t)'
                 IN /\ r.code = 200
                    /\ r.task_id = t
                    /\ r.status = "pending"
                    /\ r.error = None
                    /\ r.output_file = None
                    /\ r.duration = None
                    /\ r.completed_at = None
                    /\ r.logs = <<>>]_vars

\* C20 witness: a status query answered pending for a task whose runner had
\* not yet executed its first statement
C20_Witness ==
    /\ response # None
    /\ response.op = "get_task_status"
    /\ response.task_id = ApiTask
    /\ response.answer.code = 200
    /\ response.answer.status = "pending"
    /\ pc[ApiTask] = "L626"


\* The step is a call of an API lookup for the id
IsCallFor(id) == response' # response /\ response'.task_id = id

\* C16: a status query, a download or a deletion for an id that is not in
\* the registry (never created, or already deleted) is answered 404 "Task
\* not found" and leaves the registry and the files as they are.
C16_UnknownIdNotFound ==
    [][\A id \in TaskIds :
          (IsCallFor(id) /\ ~HasTask(id)) =>
              /\ response'.answer = [code |-> 404, detail |-> "Task not found"]
              /\ tasks' = tasks
              /\ UNCHANGED <<temp_dir, temp_files, output_exists>>]_vars

\* C16 witness: the deletion of an id that was deleted before was answered
\* 404 (after a status query of the id that was never created)
C16_Witness ==
    /\ response # None
    /\ response.op = "delete_task"
    /\ response.task_id = ApiTask
    /\ response.answer.code = 404
    /\ Submitted(ApiTask)

----------------------------------------------------------------------------
(* Claims about the caption grouping *)

\* The concatenation of the groups, in order
RECURSIVE Flatten(_)
Flatten(gs) == IF gs = <<>> THEN <<>> ELSE Head(gs) \o Flatten(Tail(gs))

\* The word carries a break punctuation mark
CarriesBreakPunct(w) == \E i \in 1..Len(w.word) : w.word[i] \in BreakPunct

\* C11: the groups create_smart_word_groups returns, concatenated in order,
\* are the input word sequence, and none of them is empty.
C11_GroupsPartitionWords ==
    group_pc = "returned" =>
        /\ Flatten(groups) = word_input
        /\ \A g \in 1..Len(groups) : groups[g] # <<>>

\* C11 witness: five words returned as a group closed by a mark, a group of
\* three and a last group of one
C11_Witness ==
    /\ group_pc = "returned"
    /\ Len(word_input) = 5
    /\ Len(groups) = 3
    /\ Len(groups[1]) = 1 /\ Len(groups[2]) = 3 /\ Len(groups[3]) = 1
    /\ ~CarriesBreakPunct(groups[3][1])

\* C12: every returned group has at most 3 words, and a group of fewer than
\* 3 words is the last group or ends with a word that carries a break
\* punctuation mark.
C12_GroupsOfAtMostThree ==
    group_pc = "returned" =>
        \A g \in 1..Len(groups) :
            /\ Len(groups[g]) <= 3
            /\ Len(groups[g]) < 3 =>
                   \/ g = Len(groups)
                   \/ CarriesBreakPunct(groups[g][Len(groups[g])])

\* C12 witness: the words "a", "a,", "a", "a", "a" returned as a group of two
\* closed by the comma and a group of three closed by its size
C12_Witness ==
    /\ group_pc = "returned"
    /\ word_input = <<Word(1, <<"a">>), Word(2, <<"a", ",">>), Word(3, <<"a">>),
                      Word(4, <<"a">>), Word(5, <<"a">>)>>
    /\ groups = <<SubSeq(word_input, 1, 2), SubSeq(word_input, 3, 5)>>

----------------------------------------------------------------------------
(* Claims about the clip count *)

Clamp(n, low, high) == Max(low, Min(high, n))
Ceil(a, b) == (a + b - 1) \div b
Floor(a, b) == a \div b

\* C15 as stated: the result is clamp(ceil(duration / average) + 1, MIN_CLIPS,
\* MAX_CLIPS) for every duration, the exact multiples of the average clip
\* length included, and lies in [MIN_CLIPS, MAX_CLIPS].
C15_CeilPlusSlack ==
    calc_result # None =>
        LET n == calc_result[1]
        IN /\ n = Clamp(Ceil(calc_duration, 10 * average_clip_duration) + 1,
                        MIN_CLIPS, MAX_CLIPS)
           /\ MIN_CLIPS <= n /\ n <= MAX_CLIPS

\* C15 as amended: the result is clamp(floor(duration / average) + 2,
\* MIN_CLIPS, MAX_CLIPS); it is clamp(ceil(duration / average) + 1, MIN_CLIPS,
\* MAX_CLIPS) when the duration is not an exact multiple of the average clip
\* length (4 for 32.4 seconds), and it lies in [MIN_CLIPS, MAX_CLIPS].
C15_FloorPlusTwo ==
    calc_result # None =>
        LET n == calc_result[1]
            average == 10 * average_clip_duration
        IN /\ n = Clamp(Floor(calc_duration, average) + 2, MIN_CLIPS, MAX_CLIPS)
           /\ calc_duration % average # 0 =>
                  n = Clamp(Ceil(calc_duration, average) + 1, MIN_CLIPS, MAX_CLIPS)
           /\ calc_duration = 324 => n = 4
           /\ MIN_CLIPS <= n /\ n <= MAX_CLIPS

\* C15 witness: the count for 30.0 seconds, an exact multiple of 15 seconds
\* above the lower clamp, is 4
C15_Witness ==
    calc_duration = 300 /\ calc_result = Some(4)

----------------------------------------------------------------------------
(* Claims about the log buffer *)

\* The last n entries of s
LastN(s, n) == IF Len(s) <= n THEN s ELSE SubSeq(s, Len(s) - n + 1, Len(s))

\* C9 as stated: the log buffer of a task never holds more than 50 entries,
\* and after more than 50 appends it holds the last 50 lines, in order.
C9_LogKeepsLast50 ==
    \A t \in DOMAIN tasks :
        LET logs == Get(tasks[t], "logs", <<>>)
        IN /\ Len(logs) <= 50
           /\ log_count[t] > 50 =>
                  logs = [i \in 1..50 |-> LogLine(Message(log_count[t] - 50 + i))]

----------------------------------------------------------------------------
(* Claims about the clip scheduling loop *)

RECURSIVE SumLengths(_)
SumLengths(segs) ==
    IF segs = <<>> THEN 0 ELSE Head(segs)[2] + SumLengths(Tail(segs))

\* C10: when the loop has ended, the lengths of the segments it accumulated
\* add up to the target duration exactly.
C10_SegmentsSumToTarget ==
    (comp_pc \in {"returned", "raised"} /\ loaded_videos # <<>>)
        => (SumLengths(segments) = comp_target /\ current_duration = comp_target)

\* C10 witness: a single clip shorter than the target, reused to fill it
C10_Witness ==
    /\ comp_pc = "returned"
    /\ Len(loaded_videos) = 1
    /\ loaded_videos[1] < comp_target
    /\ Len(segments) > 2
    /\ SumLengths(segments) = comp_target

----------------------------------------------------------------------------
(* Claims about the order of the stages *)

\* The points of process_video_generation's try block, in program order
PipelineOrder ==
    <<"L626", "L627", "L630",                               \* set-up
      "L637", "L294", "L336", "L646",                       \* speech synthesis
      "L649", "L650",                                       \* duration discovery
      "L654", "L655", "L211", "L220", "L222", "L244",       \* footage acquisition
      "L659", "L660", "L286",                               \* normalization
      "L663", "L404", "L435", "L440",                       \* compilation
      "L667", "L670",                                       \* merge
      "L673", "L701", "L719", "L720",                       \* captioning
      "L726", "L727", "L728", "L729", "L732", "L753">>      \* finalize

PipelineLabels == {PipelineOrder[i] : i \in DOMAIN PipelineOrder}
InPipeline(label) == label \in PipelineLabels
Rank == [label \in PipelineLabels |->
            CHOOSE i \in DOMAIN PipelineOrder : PipelineOrder[i] = label]

\* The first point of every stage, from set-up (1) to finalize (9)
StageEntry == <<"L626", "L637", "L649", "L654", "L659", "L663", "L667", "L673", "L726">>

\* The stage a point belongs to: the last stage that starts at or before it
StageOf ==
    [label \in PipelineLabels |->
        CHOOSE s \in DOMAIN StageEntry :
            /\ Rank[StageEntry[s]] <= Rank[label]
            /\ \A s2 \in DOMAIN StageEntry :
                   Rank[StageEntry[s2]] <= Rank[label] => s2 <= s]

\* The points a stage is left from when it has succeeded
StageExit == {"L630", "L646", "L650", "L244", "L286", "L440", "L670", "L701", "L720"}

\* What the stage that has just succeeded leaves behind, by the point entered
StageResult(t, entered) ==
    CASE entered = "L649" -> "voiceover.mp3" \in temp_files'[t]
      [] entered = "L654" -> HasTask(t)' /\ tasks'[t].duration # None
      [] entered = "L659" -> clip_list'[t] # <<>>
      [] entered = "L663" -> clip_list'[t] # <<>>
      [] entered = "L667" -> "compiled_video.mp4" \in temp_files'[t]
      [] entered = "L673" -> "merged_video.mp4" \in temp_files'[t]
      [] entered = "L726" -> words'[t] \in {"words", "empty"}
      [] OTHER -> TRUE

\* C21: the runner of a task is at one point at a time; it only moves
\* forward in program order, so no stage runs twice; it enters a stage only
\* at the stage's first point, coming from the point the previous stage
\* succeeds at and with that stage's result in place; otherwise it leaves the
\* stages for the handler and never comes back.
C21_StagesInOrder ==
    [][\A t \in TaskIds :
          pc'[t] # pc[t] =>
              /\ InPipeline(pc'[t]) =>
                    /\ pc[t] = "idle" \/ InPipeline(pc[t])
                    /\ pc[t] = "idle" => pc'[t] = "L626"
                    /\ InPipeline(pc[t]) =>
                          /\ Rank[pc'[t]] > Rank[pc[t]]
                          /\ StageOf[pc'[t]] # StageOf[pc[t]] =>
                                /\ StageOf[pc'[t]] = StageOf[pc[t]] + 1
                                /\ pc'[t] = StageEntry[StageOf[pc'[t]]]
                                /\ pc[t] \in StageExit
                                /\ StageResult(t, pc'[t])
              /\ ~InPipeline(pc[t]) /\ pc[t] # "idle" => ~InPipeline(pc'[t])]_vars

\* C21 witness: a runner in the last stage, every earlier stage having left
\* its result
C21_Witness ==
    \E t \in TaskIds :
        /\ pc[t] = "L728"
        /\ HasTask(t) /\ tasks[t].duration # None
        /\ {"voiceover.mp3", "compiled_video.mp4", "merged_video.mp4"} \subseteq temp_files[t]
        /\ words[t] = "words"
        /\ output_exists[t]

----------------------------------------------------------------------------
(* Claims about footage acquisition *)

\* The failures the footage stage raises itself (lines 189, 212, 245)
FootageCauses ==
    {"Failed to fetch from Pexels API", "No videos found for query",
     "Failed to download any videos"}

\* C22 as stated: the footage stage fails the task only when it has no
\* usable clip; a query that fails when earlier queries have returned
\* candidates is skipped.
C22_FootageFailsOnlyWithoutClips ==
    [][\A t \in TaskIds :
          (/\ pc[t] \in {"L655", "L211", "L222", "L244"}
           /\ pc'[t] = "L760"
           /\ exc'[t] \in FootageCauses) => kept_paths[t] = <<>>]_vars

----------------------------------------------------------------------------
(* Claims about the captions *)

\* The last character of the text is a mark
EndsWithBreakPunct(word_text) ==
    word_text # <<>> /\ word_text[Len(word_text)] \in BreakPunct

\* C23 as stated: the iteration that takes a word closes the group exactly
\* when the word's text ends with a mark or the group has reached three
\* words; a mark inside the text does not close a shorter group.
C23_ClosesOnFinalMarkOrThree ==
    [][(group_pc = "L505" /\ word_pos' = word_pos + 1) =>
          LET word_text == strip(word_input[word_pos + 1].word)
          IN (groups' # groups) <=>
                 (EndsWithBreakPunct(word_text) \/ Len(current_group) + 1 >= 3)]_vars

\* The number of words in the groups before group g
RECURSIVE WordsBefore(_, _)
WordsBefore(word_groups, g) ==
    IF g <= 1 THEN 0
    ELSE Len(word_groups[g - 1]) + WordsBefore(word_groups, g - 1)

\* The group and the place in it of the k-th word of the transcription
PlaceOfWord(word_groups, k) ==
    CHOOSE place \in (1..Len(word_groups)) \X (1..3) :
        /\ place[2] <= Len(word_groups[place[1]])
        /\ WordsBefore(word_groups, place[1]) + place[2] = k

\* C24: create_caption_clips returns one overlay per word, in word order;
\* the overlay of a word starts at the word's start and lasts end - start,
\* shows the texts of all the words of the word's group, and paints gold
\* the word's own place in the group and no other.
C24_OneOverlayPerWord ==
    group_pc = "clips" =>
        /\ Len(caption_clips) = Len(word_input)
        /\ \A k \in 1..Len(word_input) :
              LET word == word_input[k]
                  clip == caption_clips[k]
                  place == PlaceOfWord(groups, k)
                  word_group == groups[place[1]]
              IN /\ word_group[place[2]] = word
                 /\ clip.start = word.start
                 /\ clip.duration = word.end - word.start
                 /\ Len(clip.words_text) = Len(word_group)
                 /\ \A i \in 1..Len(word_group) :
                        /\ clip.words_text[i] = word_group[i].word
                        /\ (clip.colors[i] = "#FFD700") <=> (i = place[2])
                        /\ clip.colors[i] \in {"#FFD700", "#FFFFFF"}

\* C24 witness: the overlays of a group of three words with the same text,
\* followed by the overlay of a later word
C24_Witness ==
    /\ group_pc = "clips"
    /\ Len(caption_clips) = 4
    /\ Len(groups[1]) = 3
    /\ \A i \in 1..3 : word_input[i].word = <<"a">>
    /\ caption_clips[2].colors = <<"#FFFFFF", "#FFD700", "#FFFFFF">>
    /\ caption_clips[4].start = 3

----------------------------------------------------------------------------
(* Claims about the compilation *)

\* Some clip of the list handed to the compilation loads with a duration
SomeClipLoads == \E i \in 1..Len(comp_input) : comp_input[i] > 0

\* C25 as stated: handed a list that is not empty, the compilation does not
\* raise.
C25_CompilationNeverFails ==
    comp_input # <<>> => comp_pc # "raised"

\* C25 as amended: the clips that do not load or have no duration are left
\* out; the compilation raises before its loop exactly when no clip is
\* left, and otherwise raises only once the loop has filled the target,
\* when concatenating and writing fails.
C25_FailsWithoutLoadedClipOrAtWrite ==
    /\ comp_pc # "L404" =>
          /\ Len(loaded_videos) = Cardinality({i \in 1..Len(comp_input) : comp_input[i] > 0})
          /\ \A i \in 1..Len(loaded_videos) : loaded_videos[i] > 0
    /\ (comp_pc # "L404" /\ ~SomeClipLoads) => (comp_pc = "raised" /\ segments = <<>>)
    /\ (comp_pc = "raised" /\ SomeClipLoads) =>
          (segments # <<>> /\ current_duration >= comp_target)

\* C25 witness: a list whose first clip does not load and whose second does
\* is compiled
C25_Witness ==
    /\ comp_pc = "returned"
    /\ Len(comp_input) = 2
    /\ comp_input[1] = 0 /\ comp_input[2] > 0
    /\ loaded_videos = <<comp_input[2]>>

\* C26: the k-th segment is taken from the clip k places on in the rotation
\* that starts at the first clip; every segment but the last is the whole
\* clip; when the loop has ended, the last segment is the whole clip or the
\* start of it that fills the target exactly. Clips of 4, 4 and 4 for a
\* target of 10 give the segments 4, 4 and the first 2 of the third clip.
C26_CyclicOrderLastTrimmed ==
    /\ comp_pc \in {"L419", "returned", "raised"} =>
          /\ Len(segments) = video_index
          /\ \A k \in 1..Len(segments) :
                LET clip_number == ((k - 1) % Len(loaded_videos)) + 1
                IN /\ segments[k][1] = clip_number
                   /\ k < Len(segments) => segments[k][2] = loaded_videos[clip_number]
                   /\ k = Len(segments) =>
                         \/ segments[k][2] = loaded_videos[clip_number]
                         \/ /\ segments[k][2] < loaded_videos[clip_number]
                            /\ SumLengths(segments) = comp_target
    /\ (comp_pc = "returned" /\ comp_input = <<4, 4, 4>> /\ comp_target = 10) =>
          segments = << <<1, 4>>, <<2, 4>>, <<3, 2>> >>

\* C26 witness: the clips 4, 4, 4 compiled for the target 10
C26_Witness ==
    /\ comp_pc = "returned"
    /\ comp_input = <<4, 4, 4>>
    /\ comp_target = 10
    /\ segments = << <<1, 4>>, <<2, 4>>, <<3, 2>> >>

----------------------------------------------------------------------------
(* Claims about the duration of a task *)

\* The failures of speech synthesis and duration discovery (lines 334-391,
\* 646)
EarlyCauses ==
    {"Unexpected error in voiceover generation: Voiceover file is empty",
     "Unexpected error in voiceover generation",
     "Voiceover file was not created successfully",
     "Failed to get audio duration"}

\* The points from the start of footage acquisition on
FromFootageOn == {label \in PipelineLabels : Rank[label] >= Rank["L654"]}

\* C27: the duration of a task is written once, by line 650, from unset to
\* a positive number; the runner of a task is in the footage stage or a
\* later one only with the duration set; a task that fails with a failure
\* of speech synthesis or duration discovery has no duration, while the
\* handler runs and afterwards.
C27_DurationSetOncePositive ==
    /\ [](\A t \in DOMAIN tasks :
             LET duration == tasks[t].duration
             IN /\ duration # None => duration[1] > 0
                /\ pc[t] \in FromFootageOn => duration # None
                /\ (pc[t] \in DOMAIN HandlerNext /\ exc[t] \in EarlyCauses)
                       => duration = None
                /\ (tasks[t].error # None /\ tasks[t].error[1] \in EarlyCauses)
                       => (tasks[t].status = "failed" /\ duration = None))
    /\ [][\A t \in DOMAIN tasks :
             (t \in DOMAIN tasks' /\ tasks'[t].duration # tasks[t].duration) =>
                 /\ tasks[t].duration = None
                 /\ pc[t] = "L650"
                 /\ tasks'[t].duration = Some(target_duration[t])
                 /\ target_duration[t] > 0]_vars

\* C27 witness: one task in the merge stage with its duration set, another
\* failed in duration discovery with none
C27_Witness ==
    \E t, u \in DOMAIN tasks :
        /\ pc[t] = "L670" /\ tasks[t].duration = Some(1)
        /\ pc[u] = "done" /\ tasks[u].status = "failed"
        /\ tasks[u].error = Some("Failed to get audio duration")
        /\ tasks[u].duration = None

\* C28: with a clip loaded, every iteration of the loop adds a positive
\* length to the accumulated duration, and the loop ends: the function
\* returns or raises.
C28_LoopTerminates ==
    /\ [][(comp_pc = "L419" /\ video_index' # video_index) =>
             /\ loaded_videos # <<>>
             /\ \A i \in 1..Len(loaded_videos) : loaded_videos[i] > 0
             /\ current_duration' > current_duration]_vars
    /\ (comp_pc = "L419") ~> (comp_pc \in {"returned", "raised"})

\* C28 witness: the loop has ended after going round the clips more than
\* once, the list handed in holding a clip without duration
C28_Witness ==
    /\ comp_pc \in {"returned", "raised"}
    /\ Len(loaded_videos) < Len(comp_input)
    /\ loaded_videos # <<>>
    /\ video_index > Len(loaded_videos)

----------------------------------------------------------------------------
(* Claims about deletion and download *)

\* C29 as stated: once delete_task has removed a task, its record, its
\* working directory and its output file are absent from then on, also
\* when the runner of the task was still running.
C29_DeletedTaskLeavesNothing ==
    \A t \in TaskIds :
        (Submitted(t) /\ ~HasTask(t)) =>
            (~temp_dir[t] /\ temp_files[t] = {} /\ ~output_exists[t])

\* C30: a download of a task that is not completed, or is completed with no
\* output_file written yet, is answered 400 "Video not ready for download";
\* a download is answered with a file only for a completed task, with the
\* file its output_file names, which exists; the call changes nothing.
C30_DownloadOnlyWhenReady ==
    [][\A id \in TaskIds :
          (IsCallFor(id) /\ response'.op = "download_video" /\ HasTask(id)) =>
              LET answer == response'.answer
              IN /\ (tasks[id].status # "completed" \/ tasks[id].output_file = None)
                        => answer = [code |-> 400,
                                     detail |-> "Video not ready for download"]
                 /\ answer.code = 200 =>
                        /\ tasks[id].status = "completed"
                        /\ tasks[id].output_file = Some(answer.path)
                        /\ output_exists[id]
                 /\ tasks' = tasks
                 /\ UNCHANGED <<temp_dir, temp_files, output_exists>>]_vars

\* C30 witness: a download answered 400 for a task that is completed, its
\* final file on disk, but has no output_file yet (the runner is between
\* lines 726 and 728)
C30_Witness ==
    /\ response # None
    /\ response.op = "download_video"
    /\ response.task_id = ApiTask
    /\ response.answer.code = 400
    /\ HasTask(ApiTask)
    /\ tasks[ApiTask].status = "completed"
    /\ tasks[ApiTask].output_file = None
    /\ output_exists[ApiTask]
    /\ pc[ApiTask] = "L728"

====
